---------------------------- MODULE Spec2Model ----------------------------
(***************************************************************************)
(* Model of the two x-heep applications                                    *)
(*   sw/applications/bsp_flash_profiling/main.c      (the profiling app)   *)
(*   sw/applications/example_spi_host_quadIO/main.c  (the quad I/O example)*)
(* The profiling app is a sequential program (variable pc) running beside  *)
(* the free-running tick counter.  The quad I/O example is a sequential    *)
(* program (variable qpc) running beside the SPI host and its interrupt.   *)
(***************************************************************************)
EXTENDS Integers, Sequences, FiniteSets, TLC

(***************************************************************************)
(* Bounds of the model.                                                    *)
(***************************************************************************)
\* the test buffer holds MaxWords 32-bit words (1 kB = 256 words in the build)
MaxWords == 2
\* the reference data is the ramp (s * k) % 256 for a seed s in 0..MaxSeed
MaxSeed == 2
\* number of bytes the flash may corrupt in one run
MaxFaults == 1
\* number of times the counter may advance while one timed call is running
MaxTicks == 1

(***************************************************************************)
(* Program constants.                                                      *)
(***************************************************************************)
EXIT_SUCCESS == 0
EXIT_FAILURE == 1
\* the value of exit_code and q_exit while main has not returned
NotReturned == 0 - 1
\* bsp_flash_profiling/main.c:43, 1024 in the build, scaled to the model
MAX_TEST_BUF_LEN == 4 * MaxWords
\* the weight of the upper half of the counter: 2^32 in the hardware, 2^16 here,
\* so that a 64-bit value fits the integers of the model checker
HalfRange == 2^16

FLASH_OK == "FLASH_OK"
\* error_codes_t: FLASH_OK or one of the error kinds
error_codes_t == {FLASH_OK, "FLASH_ERROR"}

Byte == 0..255
BufIdx == 1..MAX_TEST_BUF_LEN

VARIABLES
    \* ---- profiling application ----
    pc,                 \* position of main
    speed,              \* which loop is running: "standard" (88-158), "quad" (166-236)
    i,                  \* loop counter, the length of the transfer
    status,             \* error_codes_t status
    errors,             \* uint32_t errors of line 65 (function scope)
    errors_blk,         \* uint32_t errors of lines 140/218 (loop-body scope)
    flag,               \* uint32_t flag of line 66
    timer_value,        \* uint64_t timer_value
    flash_data_32,      \* receive buffer, as bytes (index 1 is byte 0)
    flash_original_32,  \* reference data of data_array.bin, as bytes
    flash_mem,          \* the flash bytes at FLASH_ADDR
    timer_enabled,      \* counting enabled for hart 0
    timer_lo, timer_hi, \* the two halves of the counter
    exit_code,          \* value returned by main, NotReturned while running
    calls,              \* history: the flash driver calls made, in order
    faults,             \* history: bytes the flash corrupted so far
    ticks,              \* history: counter advances since counting was enabled
    timed_calls,        \* history: driver calls made since counting was enabled
    any_mismatch,       \* history: some iteration counted a mismatch
    \* ---- quad I/O example ----
    qpc,                \* position of main
    spi_intr_flag,      \* volatile int8_t spi_intr_flag
    mstatus_mie,        \* MSTATUS bit 3: global interrupt enable
    mie_spi,            \* MIE bit 20: the fast SPI interrupt
    spi_enabled,        \* spi_set_enable
    evt_intr_en,        \* spi_enable_evt_intr
    rxwm_intr_en,       \* spi_enable_rxwm_intr
    rx_watermark,       \* spi_set_rx_watermark, in words
    tx_fifo,            \* words written with spi_write_word, not yet sent
    rx_fifo,            \* words received, not yet read with spi_read_word
    cmd_fifo,           \* segments set with spi_set_command, not yet started
    hw_seg,             \* the segment the host is running, or NoSeg
    hw_left,            \* words the running RxOnly segment still has to receive
    cs_asserted,        \* chip-select is asserted
    read_byte_cmd,      \* uint32_t read_byte_cmd, as its four bytes
    flash_original_at,  \* the address of flash_original (set by the linker)
    flash_mode,         \* get_spi_flash_mode(&soc_ctrl)
    flash_data,         \* uint32_t flash_data[8]
    flash_original,     \* uint32_t flash_original[8]
    drain_i,            \* loop counter of lines 279-281
    q_errors,           \* uint32_t errors of line 285
    q_exit,             \* value returned by main, NotReturned while running
    issued,             \* history: the segments set, in order
    cs_at_start,        \* history: chip-select when each segment started
    cs_releases,        \* history: times chip-select was released
    executed,           \* history: segments the host completed
    handler_runs,       \* history: executions of fic_irq_spi
    rx_faults,          \* history: words the flash returned corrupted
    underflow,          \* history: spi_read_word found the RX FIFO empty
    ops,                \* history: the calls of main on the host's queues, in order
    \* ---- REVERT_24b_ADDR applied to an address, and again to the result ----
    rv_pc,              \* "in", "once", "twice"
    rv_in,              \* the address
    rv_out              \* the last result

profVars == << pc, speed, i, status, errors, errors_blk, flag, timer_value,
               flash_data_32, flash_original_32, flash_mem, timer_enabled,
               timer_lo, timer_hi, exit_code, calls, faults, ticks, timed_calls, any_mismatch >>

quadVars == << qpc, spi_intr_flag, mstatus_mie, mie_spi, spi_enabled, evt_intr_en,
               rxwm_intr_en, rx_watermark, tx_fifo, rx_fifo, cmd_fifo, hw_seg, hw_left,
               cs_asserted, read_byte_cmd, flash_original_at, flash_mode, flash_data,
               flash_original, drain_i, q_errors, q_exit, issued, cs_at_start,
               cs_releases, executed, handler_runs, rx_faults, underflow, ops >>

revVars == << rv_pc, rv_in, rv_out >>

vars == << profVars, quadVars, revVars >>

(***************************************************************************)
(* Buffers seen as 32-bit little-endian words (uint32_t *flash_data_check, *)
(* uint32_t *test_buffer_check).  Word j covers bytes 4j .. 4j+3 and is    *)
(* written as the tuple of its four bytes, least significant first.       *)
(***************************************************************************)
Word(buf, j) == << buf[4*j + 1], buf[4*j + 2], buf[4*j + 3], buf[4*j + 4] >>

\* uint32_t last_bytes = 0; memcpy(&last_bytes, &test_buffer_check[j], n);
LastBytes(buf, j, n) ==
    << IF n >= 1 THEN buf[4*j + 1] ELSE 0,
       IF n >= 2 THEN buf[4*j + 2] ELSE 0,
       IF n >= 3 THEN buf[4*j + 3] ELSE 0,
       0 >>

\* the bound of the verification loop: (i%4==0 ? i/4 : i/4+1)
VerifyWords(len) == IF len % 4 = 0 THEN len \div 4 ELSE len \div 4 + 1

\* one pass of the body of the verification loop: 1 if word j is counted
VerifyWordMismatch(data, ref, len, j) ==
    IF j < len \div 4
      THEN IF Word(data, j) # Word(ref, j) THEN 1 ELSE 0
      ELSE IF Word(data, j) # LastBytes(ref, j, len % 4) THEN 1 ELSE 0

RECURSIVE VerifyFrom(_, _, _, _)
VerifyFrom(data, ref, len, j) ==
    IF j < VerifyWords(len)
      THEN VerifyWordMismatch(data, ref, len, j) + VerifyFrom(data, ref, len, j + 1)
      ELSE 0

\* the value of the block-scope errors after the loop of lines 141-155
Verify(data, ref, len) == VerifyFrom(data, ref, len, 0)

(***************************************************************************)
(* The flash and its driver (w25q128jw.c), which the application calls.    *)
(* A call returns a status; an OK write stores the first len bytes of the  *)
(* buffer at FLASH_ADDR, an OK read copies the first len bytes at          *)
(* FLASH_ADDR into the first len bytes of the buffer and leaves the rest   *)
(* of the buffer untouched.  The flash may corrupt a stored byte.          *)
(***************************************************************************)
\* the bytes at FLASH_ADDR after writing the first len bytes of buf
W25Write(mem, buf, len) ==
    [k \in BufIdx |-> IF k <= len THEN buf[k] ELSE mem[k]]

\* the buffer after reading len bytes from FLASH_ADDR into it
W25Read(mem, buf, len) ==
    [k \in BufIdx |-> IF k <= len THEN mem[k] ELSE buf[k]]

\* byte k of the store is corrupted
Corrupt(mem, k) == [mem EXCEPT ![k] = (mem[k] + 1) % 256]

Call(op, st) == [op |-> op, speed |-> speed, len |-> i, status |-> st]

(***************************************************************************)
(* The quad I/O example: example_spi_host_quadIO/main.c.                   *)
(* 32-bit words that the host sends are written as the tuple of their four *)
(* bytes, least significant first; the data words are small numbers.       *)
(***************************************************************************)
RECURSIVE BitAnd(_, _)
BitAnd(a, b) ==
    IF a = 0 \/ b = 0 THEN 0
    ELSE (IF a % 2 = 1 /\ b % 2 = 1 THEN 1 ELSE 0) + 2 * BitAnd(a \div 2, b \div 2)

RECURSIVE BitOr(_, _)
BitOr(a, b) ==
    IF a = 0 THEN b
    ELSE IF b = 0 THEN a
    ELSE (IF a % 2 = 1 \/ b % 2 = 1 THEN 1 ELSE 0) + 2 * BitOr(a \div 2, b \div 2)

Shr(a, n) == a \div (2^n)
\* the operands shifted left in the source stay below 2^32
Shl(a, n) == a * (2^n)

\* a REVERT_24b_ADDR that forgets to move byte 0 up
REVERT_24b_ADDR_LowKept(addr) ==
    BitOr(BitOr(Shr(BitAnd(addr, 16711680), 16), BitAnd(addr, 65280)),
          BitAnd(addr, 255))

\* line 56, with 0xff0000 = 16711680, 0xff00 = 65280, 0xff = 255
REVERT_24b_ADDR(addr) ==
    BitOr(BitOr(Shr(BitAnd(addr, 16711680), 16), BitAnd(addr, 65280)),
          Shl(BitAnd(addr, 255), 16))

\* byte n (0 = least significant) of a number
ByteOf(a, n) == (a \div (256^n)) % 256

\* a number below 2^32 as a word
ToWord(a) == << ByteOf(a, 0), ByteOf(a, 1), ByteOf(a, 2), ByteOf(a, 3) >>

\* W25Q128JW commands, lines 32-36
W25Q128JW_CMD_RELEASE_POWERDOWN == 171
W25Q128JW_CMD_READ == 3
W25Q128JW_CMD_READ_QUADIO == 235

\* spi_speed_e and spi_dir_e
kSpiSpeedStandard == "kSpiSpeedStandard"
kSpiSpeedQuad == "kSpiSpeedQuad"
kSpiDirDummy == "kSpiDirDummy"
kSpiDirRxOnly == "kSpiDirRxOnly"
kSpiDirTxOnly == "kSpiDirTxOnly"

\* a power-up segment that keeps chip-select
cmd_powerup_Held ==
    [len |-> 3, csaat |-> TRUE, speed |-> kSpiSpeedStandard, direction |-> kSpiDirTxOnly]

\* a power-up segment that receives 32 bytes
cmd_powerup_Receiving ==
    [len |-> 31, csaat |-> FALSE, speed |-> kSpiSpeedStandard, direction |-> kSpiDirRxOnly]

\* lines 188-193
cmd_powerup ==
    [len |-> 3, csaat |-> FALSE, speed |-> kSpiSpeedStandard, direction |-> kSpiDirTxOnly]

\* lines 211-216
cmd_read ==
    [len |-> 0, csaat |-> TRUE, speed |-> kSpiSpeedStandard, direction |-> kSpiDirTxOnly]

\* lines 225-230
cmd_address ==
    [len |-> 3, csaat |-> TRUE, speed |-> kSpiSpeedQuad, direction |-> kSpiDirTxOnly]

\* lines 236-241
dummy_clocks_cmd ==
    [len |-> 7, csaat |-> TRUE, speed |-> kSpiSpeedQuad, direction |-> kSpiDirDummy]

\* lines 247-252
cmd_read_rx ==
    [len |-> 31, csaat |-> FALSE, speed |-> kSpiSpeedQuad, direction |-> kSpiDirRxOnly]

NoSeg == [len |-> 0, csaat |-> FALSE, speed |-> "none", direction |-> "none"]

\* words in flash_data and flash_original
DataWords == 8
DataIdx == 1..DataWords

\* bytes a segment moves, and the words they take in a FIFO
SegBytes(seg) == seg.len + 1
SegWords(seg) == (SegBytes(seg) + 3) \div 4

(***************************************************************************)
(* The SPI host and the core's interrupt logic (hardware).  The host runs  *)
(* the queued segments in order.  Its interrupt line is the event          *)
(* interrupt, whose only enabled event is the RX watermark: it is raised   *)
(* while both are enabled and the RX FIFO holds at least rx_watermark      *)
(* words.  The core takes a pending interrupt before its next instruction  *)
(* when MSTATUS.MIE and the MIE bit of the line are set; wfi resumes on a  *)
(* pending interrupt whose MIE bit is set, whatever MSTATUS.MIE.           *)
(***************************************************************************)
\* depth of the command queue: spi_wait_for_ready returns while it has room
CmdDepth == 2
\* the RX watermark after reset
RxWatermarkReset == 127

spi_irq == evt_intr_en /\ rxwm_intr_en /\ Len(rx_fifo) >= rx_watermark
IrqTaken == mstatus_mie /\ mie_spi /\ spi_irq
WfiResumes == mie_spi /\ spi_irq
SpiReady == Len(cmd_fifo) < CmdDepth

\* the address of flash_original in the images modelled: 0x00C0D4 and 0x7F0123FF
AddrSamples == { 192 * 256 + 212, 127 * 16777216 + 1 * 65536 + 35 * 256 + 255 }
\* the first words of the flash, read when the flash is memory mapped
FlashStartWords == [k \in DataIdx |-> 16 + k]

qCpu == << mstatus_mie, mie_spi, spi_intr_flag >>
qCfg == << spi_enabled, evt_intr_en, rxwm_intr_en, rx_watermark >>
qHw == << hw_seg, hw_left, cs_asserted >>
qData == << read_byte_cmd, flash_original_at, flash_mode, flash_data, flash_original,
            drain_i, q_errors, q_exit >>
qHist == << issued, cs_at_start, cs_releases, executed, handler_runs, rx_faults,
            underflow, ops >>
\* the histories that the calls on the host's queues leave alone
qHistHw == << cs_at_start, cs_releases, executed, handler_runs, rx_faults, underflow >>

InitQuadWith(addrs, modes) ==
    /\ qpc = "start"
    /\ spi_intr_flag = 0
    /\ mstatus_mie = FALSE
    /\ mie_spi = FALSE
    /\ spi_enabled = FALSE
    /\ evt_intr_en = FALSE
    /\ rxwm_intr_en = FALSE
    /\ rx_watermark = RxWatermarkReset
    /\ tx_fifo = << >>
    /\ rx_fifo = << >>
    /\ cmd_fifo = << >>
    /\ hw_seg = NoSeg
    /\ hw_left = 0
    /\ cs_asserted = FALSE
    /\ read_byte_cmd = ToWord(0)
    /\ flash_original_at \in addrs
    /\ flash_mode \in modes
    /\ flash_data = [k \in DataIdx |-> 0]
    /\ flash_original = [k \in DataIdx |-> IF k = 1 THEN 1 ELSE 0]
    /\ drain_i = 0
    /\ q_errors = 0
    /\ q_exit = NotReturned
    /\ issued = << >>
    /\ cs_at_start = << >>
    /\ cs_releases = 0
    /\ executed = 0
    /\ handler_runs = 0
    /\ rx_faults = 0
    /\ underflow = FALSE
    /\ ops = << >>

FlashModes == {"SPIMEMIO", "SPIFLASH"}
InitQuad == InitQuadWith(AddrSamples, FlashModes)
\* the example not running, beside the profiling application
QuadParked == InitQuadWith({0}, {"SPIFLASH"})

(***************************************************************************)
(* The addresses REVERT_24b_ADDR is tried on.                              *)
(***************************************************************************)
\* the bytes of the addresses tried: 0..MaxSampleByte and 255-MaxSampleByte..255
MaxSampleByte == 1
SampleBytes == (0..MaxSampleByte) \cup ((255 - MaxSampleByte)..255)
\* addresses of 24 bits, and the same with bits set above bit 23
RevertInputs ==
    { b3 * 16777216 + b2 * 65536 + b1 * 256 + b0 :
        b0 \in SampleBytes, b1 \in SampleBytes, b2 \in SampleBytes, b3 \in {0, 127} }

InitRevertWith(addrs) ==
    /\ rv_pc = "in"
    /\ rv_in \in addrs
    /\ rv_out = 0

RevertParked == InitRevertWith({0})

(***************************************************************************)
(* The profiling application: main of bsp_flash_profiling/main.c.          *)
(***************************************************************************)
RefData == { [k \in BufIdx |-> (s * k) % 256] : s \in 0..MaxSeed }

InitProfWith(refs) ==
    /\ pc = "init"
    /\ speed = "standard"
    /\ i = 1
    /\ status = FLASH_OK
    /\ errors = 0
    /\ errors_blk = 0
    /\ flag = 0
    /\ timer_value = 0
    /\ flash_data_32 = [k \in BufIdx |-> 0]
    /\ flash_original_32 \in refs
    /\ flash_mem = [k \in BufIdx |-> 255]
    /\ timer_enabled = FALSE
    /\ timer_lo = 0
    /\ timer_hi = 0
    /\ exit_code = NotReturned
    /\ calls = << >>
    /\ faults = 0
    /\ ticks = 0
    /\ timed_calls = 0
    /\ any_mismatch = FALSE

InitProf == InitProfWith(RefData)
\* the profiling application not running, beside the quad I/O example
ProfParked == InitProfWith({[k \in BufIdx |-> 0]})

\* lines 70-71: status = w25q128jw_init(); if (status != FLASH_OK) return EXIT_FAILURE;
FlashInit ==
    /\ pc = "init"
    /\ \E st \in error_codes_t :
          /\ status' = st
          /\ calls' = Append(calls, [op |-> "init", speed |-> "none", len |-> 0, status |-> st])
          /\ IF st # FLASH_OK
               THEN pc' = "done" /\ exit_code' = EXIT_FAILURE
               ELSE pc' = "init_timer" /\ UNCHANGED exit_code
    /\ UNCHANGED << quadVars, revVars, speed, i, errors, errors_blk, flag, timer_value, flash_data_32,
                    flash_original_32, flash_mem, timer_enabled, timer_lo, timer_hi,
                    faults, ticks, timed_calls, any_mismatch >>

\* the timer as rv_timer_init (timer service) leaves it: its reset disables
\* every counter and clears the counter value
RvTimerAfterInit == [enabled |-> FALSE, lo |-> 0, hi |-> 0]

\* line 74 and lines 255-275: init_timer, which calls rv_timer_init
InitTimer ==
    /\ pc = "init_timer"
    /\ timer_enabled' = RvTimerAfterInit.enabled
    /\ timer_lo' = RvTimerAfterInit.lo
    /\ timer_hi' = RvTimerAfterInit.hi
    /\ pc' = "w_reset_lo"
    /\ UNCHANGED << quadVars, revVars, speed, i, status, errors, errors_blk, flag, timer_value,
                    flash_data_32, flash_original_32, flash_mem, exit_code, calls,
                    faults, ticks, timed_calls, any_mismatch >>

\* what the steps on the timer leave alone
TimerFrame ==
    UNCHANGED << quadVars, revVars, speed, i, status, errors, errors_blk, flag, flash_data_32,
                 flash_original_32, flash_mem, exit_code, calls, faults,
                 any_mismatch >>

\* reset_timer, lines 278-281: write 0 to TIMER_V_LOWER0
ResetLower(at, next) ==
    /\ pc = at
    /\ timer_lo' = 0
    /\ pc' = next
    /\ UNCHANGED << timer_hi, timer_enabled, timer_value, ticks, timed_calls >>
    /\ TimerFrame

\* a reset_timer that forgets the upper half
ResetUpper_LowerOnly(at, next) ==
    /\ pc = at
    /\ pc' = next
    /\ UNCHANGED << timer_lo, timer_hi, timer_enabled, timer_value, ticks, timed_calls >>
    /\ TimerFrame

\* reset_timer, lines 282-285: write 0 to TIMER_V_UPPER0
ResetUpper(at, next) ==
    /\ pc = at
    /\ timer_hi' = 0
    /\ pc' = next
    /\ UNCHANGED << timer_lo, timer_enabled, timer_value, ticks, timed_calls >>
    /\ TimerFrame

\* rv_timer_counter_set_enabled(&timer_0_1, hart_id, kRvTimerEnabled)
StartTimer(at, next) ==
    /\ pc = at
    /\ timer_enabled' = TRUE
    /\ ticks' = 0
    /\ timed_calls' = 0
    /\ pc' = next
    /\ UNCHANGED << timer_lo, timer_hi, timer_value >>
    /\ TimerFrame

\* rv_timer_counter_set_enabled(&timer_0_1, hart_id, kRvTimerDisabled)
StopTimer(at, next) ==
    /\ pc = at
    /\ timer_enabled' = FALSE
    /\ ticks' = 0
    /\ UNCHANGED timed_calls
    /\ pc' = next
    /\ UNCHANGED << timer_lo, timer_hi, timer_value >>
    /\ TimerFrame

\* rv_timer_counter_read(&timer_0_1, hart_id, &timer_value); printf(...)
ReadTimer(at, next) ==
    /\ pc = at
    /\ timer_value' = timer_hi * HalfRange + timer_lo
    /\ pc' = next
    /\ UNCHANGED << timer_lo, timer_hi, timer_enabled, ticks, timed_calls >>
    /\ TimerFrame

\* a check that lets a failed call through
CheckStatus_Ignored(at, next) ==
    /\ pc = at
    /\ pc' = next
    /\ UNCHANGED << quadVars, revVars, speed, i, status, errors, errors_blk, flag, timer_value,
                    flash_data_32, flash_original_32, flash_mem, timer_enabled,
                    timer_lo, timer_hi, exit_code, calls, faults, ticks, timed_calls, any_mismatch >>

\* if (status != FLASH_OK) return EXIT_FAILURE;
CheckStatus(at, next) ==
    /\ pc = at
    /\ IF status # FLASH_OK
         THEN pc' = "done" /\ exit_code' = EXIT_FAILURE
         ELSE pc' = next /\ UNCHANGED exit_code
    /\ UNCHANGED << quadVars, revVars, speed, i, status, errors, errors_blk, flag, timer_value,
                    flash_data_32, flash_original_32, flash_mem, timer_enabled,
                    timer_lo, timer_hi, calls, faults, ticks, timed_calls, any_mismatch >>

\* the counter advances by d while counting is enabled (the hardware); the
\* amount changes both halves
TickSteps == {HalfRange + 1}
Tick ==
    /\ timer_enabled
    /\ ticks < MaxTicks
    /\ \E d \in TickSteps :
          LET v == timer_hi * HalfRange + timer_lo + d IN
            /\ timer_lo' = v % HalfRange
            /\ timer_hi' = (v \div HalfRange) % HalfRange
    /\ ticks' = ticks + 1
    /\ UNCHANGED timed_calls
    /\ UNCHANGED << pc, timer_enabled, timer_value >>
    /\ TimerFrame

\* ---- the timed write, lines 89-110 (standard) and 167-188 (quad) ----
WriteResetLower == ResetLower("w_reset_lo", "w_reset_hi")
WriteResetUpper == ResetUpper("w_reset_hi", "w_start")
WriteStartTimer == StartTimer("w_start", "w_call")

\* status = w25q128jw_write_standard(FLASH_ADDR, test_buffer, i)   (line 99)
\* status = w25q128jw_write_quad(FLASH_ADDR, test_buffer, i)       (line 177)
FlashWrite ==
    /\ pc = "w_call"
    /\ \E st \in error_codes_t :
          /\ status' = st
          /\ calls' = Append(calls, Call("write", st))
          /\ timed_calls' = timed_calls + 1
          /\ IF st = FLASH_OK
               THEN \/ /\ flash_mem' = W25Write(flash_mem, flash_original_32, i)
                       /\ UNCHANGED faults
                    \/ /\ faults < MaxFaults
                       /\ \E k \in 1..i :
                             flash_mem' = Corrupt(W25Write(flash_mem, flash_original_32, i), k)
                       /\ faults' = faults + 1
               ELSE UNCHANGED << flash_mem, faults >>
    /\ pc' = "w_stop"
    /\ UNCHANGED << quadVars, revVars, speed, i, errors, errors_blk, flag, timer_value, flash_data_32,
                    flash_original_32, timer_enabled, timer_lo, timer_hi, exit_code,
                    ticks, any_mismatch >>

\* a write sample whose counter is left counting
WriteStopTimer_Missing ==
    /\ pc = "w_stop"
    /\ pc' = "w_check"
    /\ UNCHANGED << timer_lo, timer_hi, timer_enabled, timer_value, ticks, timed_calls >>
    /\ TimerFrame

WriteStopTimer == StopTimer("w_stop", "w_check")
WriteCheckStatus == CheckStatus("w_check", "w_tread")
WriteReadTimer == ReadTimer("w_tread", "r_reset_lo")

\* ---- the timed read, lines 114-135 (standard) and 192-213 (quad) ----
ReadResetLower == ResetLower("r_reset_lo", "r_reset_hi")
ReadResetUpper == ResetUpper("r_reset_hi", "r_start")
ReadStartTimer == StartTimer("r_start", "r_call")

\* status = w25q128jw_read_standard(FLASH_ADDR, flash_data, i)     (line 124)
\* status = w25q128jw_read_quad(FLASH_ADDR, flash_data, i)         (line 202)
FlashRead ==
    /\ pc = "r_call"
    /\ \E st \in error_codes_t :
          /\ status' = st
          /\ calls' = Append(calls, Call("read", st))
          /\ timed_calls' = timed_calls + 1
          /\ IF st = FLASH_OK
               THEN flash_data_32' = W25Read(flash_mem, flash_data_32, i)
               ELSE UNCHANGED flash_data_32
    /\ pc' = "r_stop"
    /\ UNCHANGED << quadVars, revVars, speed, i, errors, errors_blk, flag, timer_value, flash_original_32,
                    flash_mem, timer_enabled, timer_lo, timer_hi, exit_code, faults,
                    ticks, any_mismatch >>

ReadStopTimer == StopTimer("r_stop", "r_check")
ReadCheckStatus == CheckStatus("r_check", "r_tread")
ReadReadTimer == ReadTimer("r_tread", "verify")

\* lines 140-155 and 218-233: uint32_t errors = 0; for (j ...) { ... errors++ ... }
VerifyStep ==
    /\ pc = "verify"
    /\ errors_blk' = Verify(flash_data_32, flash_original_32, i)
    /\ any_mismatch' = (any_mismatch \/ errors_blk' > 0)
    /\ pc' = "loop_end"
    /\ UNCHANGED << quadVars, revVars, speed, i, status, errors, flag, timer_value, flash_data_32,
                    flash_original_32, flash_mem, timer_enabled, timer_lo, timer_hi,
                    exit_code, calls, faults, ticks, timed_calls >>

\* a loop that stops at the first iteration with a mismatch
LoopEnd_BreakOnMismatch ==
    /\ pc = "loop_end"
    /\ flag' = IF errors_blk > 0 THEN 1 ELSE flag
    /\ errors_blk' = 0
    /\ IF errors_blk > 0
         THEN pc' = "exit" /\ UNCHANGED << speed, i >>
         ELSE IF i + 1 <= MAX_TEST_BUF_LEN
                THEN i' = i + 1 /\ pc' = "w_reset_lo" /\ UNCHANGED speed
                ELSE IF speed = "standard"
                       THEN speed' = "quad" /\ i' = 1 /\ pc' = "w_reset_lo"
                       ELSE pc' = "exit" /\ UNCHANGED << speed, i >>
    /\ UNCHANGED << quadVars, revVars, status, errors, timer_value, flash_data_32, flash_original_32,
                    flash_mem, timer_enabled, timer_lo, timer_hi, exit_code, calls,
                    faults, ticks, timed_calls, any_mismatch >>

\* lines 156-158 and 234-236: if (errors > 0) flag = 1; errors = 0; } i++
\* both statements name the errors of the loop body, which hides that of line 65
LoopEnd ==
    /\ pc = "loop_end"
    /\ flag' = IF errors_blk > 0 THEN 1 ELSE flag
    /\ errors_blk' = 0
    /\ IF i + 1 <= MAX_TEST_BUF_LEN
         THEN /\ i' = i + 1
              /\ pc' = "w_reset_lo"
              /\ UNCHANGED speed
         ELSE IF speed = "standard"
                THEN /\ speed' = "quad"
                     /\ i' = 1
                     /\ pc' = "w_reset_lo"
                ELSE /\ pc' = "exit"
                     /\ UNCHANGED << quadVars, revVars, speed, i >>
    /\ UNCHANGED << quadVars, revVars, status, errors, timer_value, flash_data_32, flash_original_32,
                    flash_mem, timer_enabled, timer_lo, timer_hi, exit_code, calls,
                    faults, ticks, timed_calls, any_mismatch >>

\* lines 239-245: if (errors == 0) return EXIT_SUCCESS; else return EXIT_FAILURE;
\* errors is the variable of line 65
ExitStatus ==
    /\ pc = "exit"
    /\ exit_code' = IF errors = 0 THEN EXIT_SUCCESS ELSE EXIT_FAILURE
    /\ pc' = "done"
    /\ UNCHANGED << quadVars, revVars, speed, i, status, errors, errors_blk, flag, timer_value,
                    flash_data_32, flash_original_32, flash_mem, timer_enabled,
                    timer_lo, timer_hi, calls, faults, ticks, timed_calls, any_mismatch >>

\* one step of main
ProfMain ==
    \/ FlashInit
    \/ InitTimer
    \/ WriteResetLower
    \/ WriteResetUpper
    \/ WriteStartTimer
    \/ FlashWrite
    \/ WriteStopTimer
    \/ WriteCheckStatus
    \/ WriteReadTimer
    \/ ReadResetLower
    \/ ReadResetUpper
    \/ ReadStartTimer
    \/ FlashRead
    \/ ReadStopTimer
    \/ ReadCheckStatus
    \/ ReadReadTimer
    \/ VerifyStep
    \/ LoopEnd
    \/ ExitStatus

NextProfiling == ProfMain \/ Tick

InitProfiling == InitProf /\ QuadParked /\ RevertParked

SpecProfiling == InitProfiling /\ [][NextProfiling]_vars

\* main runs on, and a driver call returns
SpecProfilingFair == SpecProfiling /\ WF_vars(ProfMain)

(***************************************************************************)
(* main of example_spi_host_quadIO/main.c; qpc names the line main is at.  *)
(***************************************************************************)
OrTopByte(w, b) == [w EXCEPT ![4] = BitOr(w[4], b)]

\* lines 92-112: read_byte_cmd, and flash_original when the flash is memory mapped
QStart ==
    /\ qpc = "start"
    /\ ~IrqTaken
    /\ IF flash_mode = "SPIMEMIO"
         THEN /\ flash_original' = FlashStartWords
              /\ read_byte_cmd' = ToWord(BitOr(Shl(REVERT_24b_ADDR(0), 8), W25Q128JW_CMD_READ))
         ELSE /\ UNCHANGED flash_original
              /\ read_byte_cmd' = OrTopByte(ToWord(REVERT_24b_ADDR(flash_original_at)), 255)
    /\ qpc' = "L126"
    /\ UNCHANGED << profVars, revVars, qCpu, qCfg, tx_fifo, rx_fifo, cmd_fifo, qHw, flash_original_at,
                    flash_mode, flash_data, drain_i, q_errors, q_exit, qHist >>

\* CSR_SET_BITS(CSR_REG_MSTATUS, 0x8) / CSR_CLEAR_BITS(CSR_REG_MSTATUS, 0x8)
CsrMstatusMie(at, next, on) ==
    /\ qpc = at
    /\ ~IrqTaken
    /\ mstatus_mie' = on
    /\ qpc' = next
    /\ UNCHANGED << profVars, revVars, mie_spi, spi_intr_flag, qCfg, tx_fifo, rx_fifo, cmd_fifo, qHw,
                    qData, qHist >>

\* line 133: CSR_SET_BITS(CSR_REG_MIE, mask), mask = 1 << 20
CsrMieSpi ==
    /\ qpc = "L133"
    /\ ~IrqTaken
    /\ mie_spi' = TRUE
    /\ qpc' = "L134"
    /\ UNCHANGED << profVars, revVars, mstatus_mie, spi_intr_flag, qCfg, tx_fifo, rx_fifo, cmd_fifo, qHw,
                    qData, qHist >>

\* line 134: spi_intr_flag = 0
ClearFlag ==
    /\ qpc = "L134"
    /\ ~IrqTaken
    /\ spi_intr_flag' = 0
    /\ qpc' = "L143"
    /\ UNCHANGED << profVars, revVars, mstatus_mie, mie_spi, qCfg, tx_fifo, rx_fifo, cmd_fifo, qHw,
                    qData, qHist >>

\* line 143: spi_set_enable(&spi_host, true)
SpiSetEnable ==
    /\ qpc = "L143"
    /\ ~IrqTaken
    /\ spi_enabled' = TRUE
    /\ qpc' = "L146"
    /\ UNCHANGED << profVars, revVars, qCpu, evt_intr_en, rxwm_intr_en, rx_watermark, tx_fifo, rx_fifo,
                    cmd_fifo, qHw, qData, qHist >>

\* spi_enable_evt_intr(&spi_host, true)
spi_enable_evt_intr(at, next) ==
    /\ qpc = at
    /\ ~IrqTaken
    /\ evt_intr_en' = TRUE
    /\ qpc' = next
    /\ UNCHANGED << profVars, revVars, qCpu, spi_enabled, rxwm_intr_en, rx_watermark, tx_fifo, rx_fifo,
                    cmd_fifo, qHw, qData, qHist >>

\* spi_enable_rxwm_intr(&spi_host, true)
spi_enable_rxwm_intr(at, next) ==
    /\ qpc = at
    /\ ~IrqTaken
    /\ rxwm_intr_en' = TRUE
    /\ qpc' = next
    /\ UNCHANGED << profVars, revVars, qCpu, spi_enabled, evt_intr_en, rx_watermark, tx_fifo, rx_fifo,
                    cmd_fifo, qHw, qData, qHist >>

\* a watermark of half the words of the data segment
SpiSetRxWatermark_Half ==
    /\ qpc = "L150"
    /\ ~IrqTaken
    /\ rx_watermark' = 4
    /\ qpc' = "L186"
    /\ UNCHANGED << profVars, revVars, qCpu, spi_enabled, evt_intr_en, rxwm_intr_en, tx_fifo, rx_fifo,
                    cmd_fifo, qHw, qData, qHist >>

\* lines 150-175: output enable, clock and chip configuration, and
\* spi_set_rx_watermark(&spi_host, 8)
SpiSetRxWatermark ==
    /\ qpc = "L150"
    /\ ~IrqTaken
    /\ rx_watermark' = 8
    /\ qpc' = "L186"
    /\ UNCHANGED << profVars, revVars, qCpu, spi_enabled, evt_intr_en, rxwm_intr_en, tx_fifo, rx_fifo,
                    cmd_fifo, qHw, qData, qHist >>

\* spi_write_word(&spi_host, w)
spi_write_word(at, next, w) ==
    /\ qpc = at
    /\ ~IrqTaken
    /\ tx_fifo' = Append(tx_fifo, w)
    /\ ops' = Append(ops, "write")
    /\ qpc' = next
    /\ UNCHANGED << profVars, revVars, qCpu, qCfg, rx_fifo, cmd_fifo, qHw, qData, issued, qHistHw >>

\* spi_set_command(&spi_host, cmd)
spi_set_command(at, next, cmd) ==
    /\ qpc = at
    /\ ~IrqTaken
    /\ cmd_fifo' = Append(cmd_fifo, cmd)
    /\ issued' = Append(issued, cmd)
    /\ ops' = Append(ops, cmd.direction)
    /\ qpc' = next
    /\ UNCHANGED << profVars, revVars, qCpu, qCfg, tx_fifo, rx_fifo, qHw, qData, qHistHw >>

\* spi_wait_for_ready(&spi_host)
spi_wait_for_ready(at, next) ==
    /\ qpc = at
    /\ ~IrqTaken
    /\ SpiReady
    /\ ops' = Append(ops, "ready")
    /\ qpc' = next
    /\ UNCHANGED << profVars, revVars, qCpu, qCfg, tx_fifo, rx_fifo, cmd_fifo, qHw, qData, issued, qHistHw >>

\* ---- power up flash, lines 184-196 ----
PowerupWord == spi_write_word("L186", "L194", ToWord(W25Q128JW_CMD_RELEASE_POWERDOWN))
PowerupCommand == spi_set_command("L194", "L195", cmd_powerup)
PowerupReady == spi_wait_for_ready("L195", "L208")

\* ---- fast read quad I/O, lines 206-255 ----
ReadOpcodeWord == spi_write_word("L208", "L209", ToWord(W25Q128JW_CMD_READ_QUADIO))
ReadOpcodeWordReady == spi_wait_for_ready("L209", "L217")
ReadOpcodeCommand == spi_set_command("L217", "L218", cmd_read)
ReadOpcodeReady == spi_wait_for_ready("L218", "L222")
AddressWord == spi_write_word("L222", "L223", read_byte_cmd)
AddressWordReady == spi_wait_for_ready("L223", "L231")
AddressCommand == spi_set_command("L231", "L232", cmd_address)
AddressReady == spi_wait_for_ready("L232", "L242")
DummyCommand == spi_set_command("L242", "L243", dummy_clocks_cmd)
\* main goes on to the data segment without polling the host
DummyReady_Skipped ==
    /\ qpc = "L243"
    /\ ~IrqTaken
    /\ qpc' = "L253"
    /\ UNCHANGED << profVars, revVars, qCpu, qCfg, tx_fifo, rx_fifo, cmd_fifo, qHw, qData, qHist >>

DummyReady == spi_wait_for_ready("L243", "L253")
DataCommand == spi_set_command("L253", "L254", cmd_read_rx)
DataReady == spi_wait_for_ready("L254", "L264")

\* ---- the wait loop, lines 264-271 ----
\* a loop that suspends without masking the interrupt first
WaitDisable_NotMasked ==
    /\ qpc = "L265"
    /\ ~IrqTaken
    /\ qpc' = "L267"
    /\ UNCHANGED << profVars, revVars, qCpu, qCfg, tx_fifo, rx_fifo, cmd_fifo, qHw, qData, qHist >>

\* a loop that is left without looking at the flag
WaitTest_NoWait ==
    /\ qpc = "L264"
    /\ ~IrqTaken
    /\ qpc' = "L274"
    /\ UNCHANGED << profVars, revVars, qCpu, qCfg, tx_fifo, rx_fifo, cmd_fifo, qHw, qData, qHist >>

\* line 264: while( spi_intr_flag == 0 )
WaitTest ==
    /\ qpc = "L264"
    /\ ~IrqTaken
    /\ qpc' = IF spi_intr_flag = 0 THEN "L265" ELSE "L274"
    /\ UNCHANGED << profVars, revVars, qCpu, qCfg, tx_fifo, rx_fifo, cmd_fifo, qHw, qData, qHist >>

\* line 265: CSR_CLEAR_BITS(CSR_REG_MSTATUS, 0x8)
WaitDisable == CsrMstatusMie("L265", "L267", FALSE)

\* line 267: if( spi_intr_flag == 0 )
WaitInnerTest ==
    /\ qpc = "L267"
    /\ ~IrqTaken
    /\ qpc' = IF spi_intr_flag = 0 THEN "L268" ELSE "L270"
    /\ UNCHANGED << profVars, revVars, qCpu, qCfg, tx_fifo, rx_fifo, cmd_fifo, qHw, qData, qHist >>

\* line 268: wait_for_interrupt(); the core executes wfi and suspends
WaitForInterrupt ==
    /\ qpc = "L268"
    /\ ~IrqTaken
    /\ qpc' = "wfi"
    /\ UNCHANGED << profVars, revVars, qCpu, qCfg, tx_fifo, rx_fifo, cmd_fifo, qHw, qData, qHist >>

\* the suspended core resumes after the wfi on a pending interrupt whose MIE
\* bit is set
WfiWake ==
    /\ qpc = "wfi"
    /\ ~IrqTaken
    /\ WfiResumes
    /\ qpc' = "L270"
    /\ UNCHANGED << profVars, revVars, qCpu, qCfg, tx_fifo, rx_fifo, cmd_fifo, qHw, qData, qHist >>

\* line 270: CSR_SET_BITS(CSR_REG_MSTATUS, 0x8)
WaitEnable == CsrMstatusMie("L270", "L264", TRUE)

\* ---- after the loop, lines 273-302 ----
ReenableEvt == spi_enable_evt_intr("L274", "L276")
ReenableRxwm == spi_enable_rxwm_intr("L276", "L279")

\* lines 279-281: spi_read_word(&spi_host, &flash_data[i])
Drain ==
    /\ qpc = "L279"
    /\ ~IrqTaken
    /\ IF drain_i < DataWords
         THEN /\ drain_i' = drain_i + 1
              /\ qpc' = "L279"
              /\ IF rx_fifo # << >>
                   THEN /\ flash_data' = [flash_data EXCEPT ![drain_i + 1] = Head(rx_fifo)]
                        /\ rx_fifo' = Tail(rx_fifo)
                        /\ UNCHANGED underflow
                   ELSE /\ underflow' = TRUE
                        /\ UNCHANGED << profVars, revVars, flash_data, rx_fifo >>
         ELSE /\ qpc' = "L285"
              /\ UNCHANGED << profVars, revVars, drain_i, flash_data, rx_fifo, underflow >>
    /\ UNCHANGED << profVars, revVars, qCpu, qCfg, tx_fifo, cmd_fifo, qHw, read_byte_cmd, flash_original_at,
                    flash_mode, flash_original, q_errors, q_exit, issued, cs_at_start,
                    cs_releases, executed, handler_runs, rx_faults, ops >>

\* lines 285-293: count the words of flash_data that differ from flash_original
Compare ==
    /\ qpc = "L285"
    /\ ~IrqTaken
    /\ q_errors' = Cardinality({k \in DataIdx : flash_data[k] # flash_original[k]})
    /\ qpc' = "L295"
    /\ UNCHANGED << profVars, revVars, qCpu, qCfg, tx_fifo, rx_fifo, cmd_fifo, qHw, read_byte_cmd,
                    flash_original_at, flash_mode, flash_data, flash_original, drain_i,
                    q_exit, qHist >>

\* lines 295-302
QExit ==
    /\ qpc = "L295"
    /\ ~IrqTaken
    /\ q_exit' = IF q_errors = 0 THEN EXIT_SUCCESS ELSE EXIT_FAILURE
    /\ qpc' = "done"
    /\ UNCHANGED << profVars, revVars, qCpu, qCfg, tx_fifo, rx_fifo, cmd_fifo, qHw, read_byte_cmd,
                    flash_original_at, flash_mode, flash_data, flash_original, drain_i,
                    q_errors, qHist >>

\* lines 66-72: fic_irq_spi, run by the core when it takes the interrupt; the
\* handler returns to the interrupted instruction, or after the wfi when the
\* interrupt woke the core
fic_irq_spi ==
    /\ IrqTaken
    /\ evt_intr_en' = FALSE
    /\ rxwm_intr_en' = FALSE
    /\ spi_intr_flag' = 1
    /\ handler_runs' = handler_runs + 1
    /\ qpc' = IF qpc = "wfi" THEN "L270" ELSE qpc
    /\ UNCHANGED << profVars, revVars, mstatus_mie, mie_spi, spi_enabled, rx_watermark, tx_fifo,
                    rx_fifo, cmd_fifo, qHw, qData, issued, cs_at_start, cs_releases,
                    executed, rx_faults, underflow, ops >>

\* ---- the SPI host ----
\* the host takes the next segment of the queue and asserts chip-select; a
\* TxOnly segment takes its words from the TX FIFO
HwStart ==
    /\ spi_enabled
    /\ hw_seg = NoSeg
    /\ cmd_fifo # << >>
    /\ LET seg == Head(cmd_fifo)
           n == IF seg.direction = kSpiDirTxOnly THEN SegWords(seg) ELSE 0 IN
         /\ Len(tx_fifo) >= n
         /\ tx_fifo' = SubSeq(tx_fifo, n + 1, Len(tx_fifo))
         /\ hw_seg' = seg
         /\ hw_left' = IF seg.direction = kSpiDirRxOnly THEN SegWords(seg) ELSE 0
    /\ cmd_fifo' = Tail(cmd_fifo)
    /\ cs_at_start' = Append(cs_at_start, cs_asserted)
    /\ cs_asserted' = TRUE
    /\ UNCHANGED << profVars, revVars, qpc, qCpu, qCfg, rx_fifo, qData, issued, cs_releases, executed,
                    handler_runs, rx_faults, underflow, ops >>

\* the running RxOnly segment receives its next word from the flash, which
\* holds the words of flash_original and may return one corrupted
HwRxWord ==
    /\ hw_seg.direction = kSpiDirRxOnly
    /\ hw_left > 0
    /\ LET k == SegWords(hw_seg) - hw_left + 1 IN
         \/ /\ rx_fifo' = Append(rx_fifo, flash_original[k])
            /\ UNCHANGED rx_faults
         \/ /\ rx_faults < MaxFaults
            /\ rx_fifo' = Append(rx_fifo, flash_original[k] + 1)
            /\ rx_faults' = rx_faults + 1
    /\ hw_left' = hw_left - 1
    /\ UNCHANGED << profVars, revVars, qpc, qCpu, qCfg, tx_fifo, cmd_fifo, hw_seg, cs_asserted, qData,
                    issued, cs_at_start, cs_releases, executed, handler_runs,
                    underflow, ops >>

\* the running segment ends; chip-select is released unless the segment holds it
HwEnd ==
    /\ hw_seg # NoSeg
    /\ hw_left = 0
    /\ hw_seg' = NoSeg
    /\ cs_asserted' = hw_seg.csaat
    /\ cs_releases' = IF hw_seg.csaat THEN cs_releases ELSE cs_releases + 1
    /\ executed' = executed + 1
    /\ UNCHANGED << profVars, revVars, qpc, qCpu, qCfg, tx_fifo, rx_fifo, cmd_fifo, hw_left, qData, issued,
                    cs_at_start, handler_runs, rx_faults, underflow, ops >>

SpiHost == HwStart \/ HwRxWord \/ HwEnd

\* one step of main (each step waits while the core takes a pending interrupt)
QMain ==
    \/ QStart
    \/ CsrMstatusMie("L126", "L133", TRUE)
    \/ CsrMieSpi
    \/ ClearFlag
    \/ SpiSetEnable
    \/ spi_enable_evt_intr("L146", "L148")
    \/ spi_enable_rxwm_intr("L148", "L150")
    \/ SpiSetRxWatermark
    \/ PowerupWord
    \/ PowerupCommand
    \/ PowerupReady
    \/ ReadOpcodeWord
    \/ ReadOpcodeWordReady
    \/ ReadOpcodeCommand
    \/ ReadOpcodeReady
    \/ AddressWord
    \/ AddressWordReady
    \/ AddressCommand
    \/ AddressReady
    \/ DummyCommand
    \/ DummyReady
    \/ DataCommand
    \/ DataReady
    \/ WaitTest
    \/ WaitDisable
    \/ WaitInnerTest
    \/ WaitForInterrupt
    \/ WfiWake
    \/ WaitEnable
    \/ ReenableEvt
    \/ ReenableRxwm
    \/ Drain
    \/ Compare
    \/ QExit

NextQuadIO == QMain \/ fic_irq_spi \/ SpiHost

InitQuadIO == InitQuad /\ ProfParked /\ RevertParked

SpecQuadIO == InitQuadIO /\ [][NextQuadIO]_vars

\* main runs on, the core takes a pending interrupt, the host runs its queue
SpecQuadIOFair ==
    /\ SpecQuadIO
    /\ WF_vars(QMain)
    /\ WF_vars(fic_irq_spi)
    /\ WF_vars(SpiHost)

(***************************************************************************)
(* REVERT_24b_ADDR as a function: applied to an address, then to its own   *)
(* result.                                                                 *)
(***************************************************************************)
RevertOnce ==
    /\ rv_pc = "in"
    /\ rv_out' = REVERT_24b_ADDR(rv_in)
    /\ rv_pc' = "once"
    /\ UNCHANGED << profVars, quadVars, rv_in >>

RevertTwice ==
    /\ rv_pc = "once"
    /\ rv_out' = REVERT_24b_ADDR(rv_out)
    /\ rv_pc' = "twice"
    /\ UNCHANGED << profVars, quadVars, rv_in >>

NextRevert == RevertOnce \/ RevertTwice

InitRevert == InitRevertWith(RevertInputs) /\ ProfParked /\ QuadParked

SpecRevert == InitRevert /\ [][NextRevert]_vars

(***************************************************************************)
(* Properties of the profiling application.                                *)
(***************************************************************************)
AllOk == \A k \in 1..Len(calls) : calls[k].status = FLASH_OK
LastFailed == Len(calls) > 0 /\ calls[Len(calls)].status # FLASH_OK

\* the write/read pairs of one loop, lengths 1..MAX_TEST_BUF_LEN in order
PassCalls(sp) ==
    [n \in 1..(2 * MAX_TEST_BUF_LEN) |->
        [op |-> IF n % 2 = 1 THEN "write" ELSE "read", speed |-> sp,
         len |-> (n + 1) \div 2, status |-> FLASH_OK]]

ExpectedCalls ==
    << [op |-> "init", speed |-> "none", len |-> 0, status |-> FLASH_OK] >>
      \o PassCalls("standard") \o PassCalls("quad")

\* C1: the program exits with success only when no iteration of either loop
\* counted a mismatch, and exits with failure when some iteration did.
C1_ExitCodeReflectsMismatches ==
    pc = "done" =>
        /\ (exit_code = EXIT_SUCCESS => ~any_mismatch)
        /\ (any_mismatch => exit_code = EXIT_FAILURE)

\* C4: the verification compares ceil(L/4) words, and when L is not a multiple
\* of 4 the count does not depend on the bytes of the received buffer's last
\* word beyond the first L mod 4.
C4_TailBytesIgnored ==
    pc = "verify" =>
        /\ VerifyWords(i) = (i + 3) \div 4
        /\ i % 4 # 0 =>
             \A k \in (i + 1)..(4 * VerifyWords(i)) : \A v \in Byte :
                 Verify([flash_data_32 EXCEPT ![k] = v], flash_original_32, i)
                   = Verify(flash_data_32, flash_original_32, i)

\* C5: with a flash that stores and returns the bytes unchanged, every
\* iteration of the standard loop and of the quad loop counts no mismatch.
C5_RoundTripNoMismatch ==
    (pc = "loop_end" /\ faults = 0) => errors_blk = 0

\* C6: a flash driver call that returns an error is the last driver call of
\* the run (no later call, no retry), and the program then returns
\* EXIT_FAILURE.
C6_DriverErrorFatal ==
    /\ \A k \in 1..(Len(calls) - 1) : calls[k].status = FLASH_OK
    /\ LastFailed =>
          \/ pc \in {"w_stop", "w_check", "r_stop", "r_check"} /\ exit_code = NotReturned
          \/ pc = "done" /\ exit_code = EXIT_FAILURE

C6_Witness ==
    /\ pc = "done"
    /\ LastFailed
    /\ exit_code = EXIT_FAILURE
    /\ calls[Len(calls)].op = "write"
    /\ calls[Len(calls)].len = 2

\* C7: when every driver call returns FLASH_OK the run makes the write/read
\* pairs of lengths 1..MAX_TEST_BUF_LEN of the standard loop, then those of
\* the quad loop, whatever the mismatches counted, and terminates.
C7_MismatchNeverAborts ==
    /\ [](pc = "done" /\ AllOk => calls = ExpectedCalls)
    /\ <>(pc = "done")

C7_Witness ==
    /\ pc = "done"
    /\ AllOk
    /\ any_mismatch
    /\ faults > 0
    /\ calls = ExpectedCalls

\* C10: counting is disabled whenever reset_timer runs, and from the return
\* of reset_timer until counting is enabled both halves of the counter are 0.
C10_ResetLeavesZero ==
    /\ pc \in {"w_reset_lo", "w_reset_hi", "r_reset_lo", "r_reset_hi"} => ~timer_enabled
    /\ pc \in {"w_start", "r_start"} =>
          /\ ~timer_enabled
          /\ timer_lo = 0
          /\ timer_hi = 0

\* the write sample was not 0, so the reset before the read cleared a counter
\* that had advanced
C10_Witness ==
    /\ pc = "r_start"
    /\ timer_value > HalfRange
    /\ timer_lo = 0
    /\ timer_hi = 0

(***************************************************************************)
(* Properties of the quad I/O example.                                     *)
(***************************************************************************)
PastWaitLoop == {"L274", "L276", "L279", "L285", "L295", "done"}

\* C2: no lost wakeup.  The core is never suspended in wait_for_interrupt
\* with the flag already set, and once the interrupt is raised with its
\* sources and its MIE bit enabled, main leaves the wait loop with
\* spi_intr_flag = 1.
C2_NoLostWakeup ==
    /\ [](qpc \in {"L268", "wfi"} => spi_intr_flag = 0)
    /\ ((spi_irq /\ mie_spi) ~> (qpc \in PastWaitLoop /\ spi_intr_flag = 1))

\* the interrupt is pending while main is at wait_for_interrupt with
\* MSTATUS.MIE clear: it was raised after the inner test or during the suspend
C2_Witness ==
    /\ qpc = "L268"
    /\ spi_irq
    /\ mie_spi
    /\ ~mstatus_mie
    /\ spi_intr_flag = 0

\* C3: fic_irq_spi executes exactly once over the whole run, also after main
\* re-enables the event and RX watermark interrupts.
C3_HandlerRunsOnce ==
    /\ handler_runs <= 1
    /\ qpc = "done" => handler_runs = 1

\* C8: the segments are set in the order power-up, opcode, address, dummy,
\* data; only opcode, address and dummy hold chip-select; chip-select is
\* released once after the power-up segment and once after the data segment,
\* and is held between segments only inside the quad read.
C8_ChipSelectContinuity ==
    /\ Len(issued) <= 5
    /\ \A n \in 1..Len(issued) :
          /\ issued[n].csaat = (n \in {2, 3, 4})
          /\ issued[n].direction
               = << kSpiDirTxOnly, kSpiDirTxOnly, kSpiDirTxOnly, kSpiDirDummy,
                    kSpiDirRxOnly >>[n]
          /\ issued[n].speed
               = << kSpiSpeedStandard, kSpiSpeedStandard, kSpiSpeedQuad, kSpiSpeedQuad,
                    kSpiSpeedQuad >>[n]
    /\ \A n \in 1..Len(cs_at_start) : cs_at_start[n] = (n \in {3, 4, 5})
    /\ cs_releases = (IF executed >= 5 THEN 2 ELSE IF executed >= 1 THEN 1 ELSE 0)
    /\ (cs_asserted /\ hw_seg = NoSeg) => executed \in {2, 3, 4}

C8_Witness ==
    /\ executed = 5
    /\ Len(cs_at_start) = 5
    /\ cs_releases = 2
    /\ ~cs_asserted

(***************************************************************************)
(* Properties of REVERT_24b_ADDR.                                          *)
(***************************************************************************)
\* C9: REVERT_24b_ADDR swaps byte 0 with byte 2 and keeps byte 1, and applied
\* twice to an address of 24 bits it returns the address.
C9_RevertInvolution ==
    /\ rv_pc = "once" =>
          /\ ByteOf(rv_out, 0) = ByteOf(rv_in, 2)
          /\ ByteOf(rv_out, 1) = ByteOf(rv_in, 1)
          /\ ByteOf(rv_out, 2) = ByteOf(rv_in, 0)
    /\ (rv_pc = "twice" /\ rv_in < 16777216) => rv_out = rv_in

C9_Witness ==
    /\ rv_pc = "twice"
    /\ rv_in < 16777216
    /\ ByteOf(rv_in, 0) # ByteOf(rv_in, 2)
    /\ rv_out = rv_in

(***************************************************************************)
(* Properties of the quad I/O example, continued.                          *)
(***************************************************************************)
\* C11: when main sets the first segment of the quad read (line 217),
\* spi_intr_flag is 0 and fic_irq_spi has not run, although both interrupt
\* sources were enabled before the power-up segment was set.
C11_ArmedAtQuadRead ==
    qpc = "L217" =>
        /\ spi_intr_flag = 0
        /\ handler_runs = 0

\* the power-up segment has run to its end with the interrupt enabled
\* everywhere, and main is about to set the read opcode segment
C11_Witness ==
    /\ qpc = "L217"
    /\ executed = 1
    /\ mstatus_mie
    /\ mie_spi
    /\ evt_intr_en
    /\ rxwm_intr_en
    /\ spi_intr_flag = 0

\* C12: a word leaves the RX FIFO only in a step of the drain loop of main
\* (lines 279-281), taken with spi_intr_flag = 1 after the wait loop, and never
\* in a step of fic_irq_spi; main is past the wait loop only with the flag set.
C12_DrainAfterSignaled ==
    [][ /\ rx_fifo' # rx_fifo /\ Len(rx_fifo') <= Len(rx_fifo) =>
             /\ qpc = "L279"
             /\ spi_intr_flag = 1
             /\ handler_runs >= 1
             /\ handler_runs' = handler_runs
        /\ handler_runs' # handler_runs => rx_fifo' = rx_fifo
        /\ qpc' \in {"L274", "L276", "L279"} => spi_intr_flag' = 1 ]_vars

\* main has read some of the words, after the handler ran
C12_Witness ==
    /\ qpc = "L279"
    /\ drain_i \in 1..(DataWords - 1)
    /\ Len(rx_fifo) = DataWords - drain_i
    /\ spi_intr_flag = 1
    /\ handler_runs >= 1

\* the last call before call n that is not a readiness poll, 0 when there is none
RECURSIVE LastQueueCall(_)
LastQueueCall(n) ==
    IF n <= 1 THEN 0
    ELSE IF ops[n - 1] # "ready" THEN n - 1
    ELSE LastQueueCall(n - 1)

SegmentDirs == {kSpiDirTxOnly, kSpiDirDummy, kSpiDirRxOnly}

\* C13: the segments are set in program order; after each spi_set_command the
\* next call is a spi_wait_for_ready that returned; each TxOnly segment is set
\* with exactly one data word written since the segment before it, and the
\* Dummy and RxOnly segments with none.
C13_SegmentsInOrderAndGated ==
    /\ issued = SubSeq(<< cmd_powerup, cmd_read, cmd_address, dummy_clocks_cmd, cmd_read_rx >>,
                       1, Len(issued))
    /\ \A n \in 1..Len(ops) :
          /\ (ops[n] \in SegmentDirs /\ n < Len(ops)) => ops[n + 1] = "ready"
          /\ ops[n] = kSpiDirTxOnly =>
                /\ LastQueueCall(n) > 0
                /\ ops[LastQueueCall(n)] = "write"
                /\ LastQueueCall(LastQueueCall(n)) > 0 =>
                      ops[LastQueueCall(LastQueueCall(n))] \in SegmentDirs
          /\ ops[n] \in {kSpiDirDummy, kSpiDirRxOnly} =>
                /\ LastQueueCall(n) > 0
                /\ ops[LastQueueCall(n)] \in SegmentDirs
    /\ qpc \in {"L194", "L217", "L231", "L242", "L253"} =>
          (ops = << >> \/ ops[Len(ops)] \in {"write", "ready"})

\* all five segments are set and the last poll has returned
C13_Witness ==
    /\ qpc = "L264"
    /\ Len(issued) = 5
    /\ Len(ops) = 15
    /\ ops[Len(ops)] = "ready"

(***************************************************************************)
(* Properties of the profiling application, continued.                     *)
(***************************************************************************)
TimedCallPcs == {"w_call", "w_stop", "r_call", "r_stop"}

\* C14: counting is enabled only from the enable before a driver call to the
\* disable after it, so never while the status is checked, the counter is
\* read and printed, or the data is verified; counting is enabled on a
\* counter that is 0; the write and read calls are made while counting; and
\* counting is disabled after exactly one driver call.
C14_SampleCoversOneCall ==
    /\ [](timer_enabled => (pc \in TimedCallPcs /\ timed_calls <= 1))
    /\ [][ /\ (~timer_enabled /\ timer_enabled') =>
                  (timer_lo = 0 /\ timer_hi = 0 /\ timed_calls' = 0)
           /\ (calls' # calls /\ calls'[Len(calls')].op # "init") =>
                  (timer_enabled /\ timer_enabled' /\ timed_calls = 0)
           /\ (timer_enabled /\ ~timer_enabled') => timed_calls = 1
           /\ (timer_value' # timer_value \/ errors_blk' # errors_blk) =>
                  ~timer_enabled ]_vars

\* the write sample was taken and was not 0, and the read sample has counted
\* from 0 over the read call
C14_Witness ==
    /\ pc = "r_tread"
    /\ ~timer_enabled
    /\ timer_value > 0
    /\ timer_hi * HalfRange + timer_lo > 0
    /\ timed_calls = 1

(***************************************************************************)
(* Properties of the words and segments of the quad read.                  *)
(***************************************************************************)
\* the flash address the quad read is for: that of flash_original (line 92),
\* or 0x0 when the flash is memory mapped (lines 109-110)
ReadAddress == IF flash_mode = "SPIMEMIO" THEN 0 ELSE flash_original_at

\* C15: the word written for the address segment (line 222) has address bits
\* 23..16 in byte 0, bits 15..8 in byte 1, bits 7..0 in byte 2 and 0xFF in
\* byte 3, whatever bits 31..24 of the address are.
C15_AddressWordPacking ==
    qpc = "L223" =>
        tx_fifo[Len(tx_fifo)] = << ByteOf(ReadAddress, 2), ByteOf(ReadAddress, 1),
                                   ByteOf(ReadAddress, 0), 255 >>

\* C16: when main leaves the wait loop the RX FIFO holds the 8 words of the
\* data segment; each of the 8 reads of lines 279-281 finds a word; the RX FIFO
\* is empty after the loop.
C16_DrainNeverUnderflows ==
    /\ ~underflow
    /\ qpc \in {"L274", "L276"} => Len(rx_fifo) = DataWords
    /\ qpc = "L279" => Len(rx_fifo) = DataWords - drain_i
    /\ qpc \in {"L285", "L295", "done"} =>
          /\ drain_i = DataWords
          /\ rx_fifo = << >>

\* the 8 words were read after the handler set the flag
C16_Witness ==
    /\ qpc = "L285"
    /\ drain_i = DataWords
    /\ rx_fifo = << >>
    /\ ~underflow
    /\ executed = 5
    /\ handler_runs >= 1

\* C17: the len of every segment set is in 0..31, and is one less than the
\* bytes of the segment: 1 for the power-up opcode (segment 1), 1 for the read
\* opcode (segment 2), 4 for the address (segment 3), 32 for the data
\* (segment 5).
C17_LenIsBytesMinusOne ==
    \A n \in 1..Len(issued) :
        /\ issued[n].len \in 0..31
        /\ n = 1 => issued[n].len = 1 - 1
        /\ n = 2 => issued[n].len = 1 - 1
        /\ n = 3 => issued[n].len = 4 - 1
        /\ n = 5 => issued[n].len = 32 - 1

=============================================================================
